---- MODULE Spec2Model ----
(***************************************************************************)
(* libcyaml, src/free.c: the generic schema-driven free routine.           *)
(*                                                                         *)
(* Memory is byte addressed.  An address is an integer, NULL is 0, and a   *)
(* heap block b occupies the addresses Base(b) .. Base(b)+BlockSpan-1.     *)
(* Every stored value (a pointer, a count, a scalar) sits in an 8-byte     *)
(* cell.  The three functions of free.c recurse into each other; every     *)
(* activation is a frame of `stack`, and each action below executes the    *)
(* straight-line code of one function between two calls.                   *)
(* `trace` is what the collaborators see: the calls of cyaml_data_read,    *)
(* cyaml__log and free, and the calls between the functions of free.c.     *)
(***************************************************************************)
EXTENDS Integers, Sequences, FiniteSets, TLC

\* ------------------------------------------------------------- bounds
\* Largest element count stored in a variable-length sequence.
MaxCount == 2
\* Largest `sequence.max` of a fixed-length sequence.
FixedMax == 2

\* ---------------------------------------------------------- constants
\* sizeof(void *), sizeof(char *), sizeof(data): bytes of a pointer.
PtrSize == 8
\* Bytes between the bases of two heap blocks.
BlockSpan == 8 * PtrSize
NULL == 0

Base(b) == b * BlockSpan
BlockOf(addr) == (addr \div BlockSpan) * BlockSpan
Cell(j) == j * PtrSize

\* ------------------------------------------------------------ schemas
\* cyaml_schema_type_t, as free.c reads it: type, flags & CYAML_FLAG_POINTER,
\* data_size, mapping.schema (the field list up to the key == NULL entry),
\* sequence.schema, sequence.count_offset, sequence.count_size, sequence.max.
\* Schemas refer to each other by their index in a schema table.
Scalar(ptr) ==
    [type |-> "CYAML_SCALAR", ptr |-> ptr, data_size |-> PtrSize, fields |-> <<>>,
     elem |-> 0, count_offset |-> 0, count_size |-> 0, max |-> 0]
Mapping(ptr, size, fields) ==
    [type |-> "CYAML_MAPPING", ptr |-> ptr, data_size |-> size, fields |-> fields,
     elem |-> 0, count_offset |-> 0, count_size |-> 0, max |-> 0]
Sequence(ptr, elem, coff, csize) ==
    [type |-> "CYAML_SEQUENCE", ptr |-> ptr, data_size |-> PtrSize, fields |-> <<>>,
     elem |-> elem, count_offset |-> coff, count_size |-> csize, max |-> 0]
SequenceFixed(ptr, elem, coff, max) ==
    [type |-> "CYAML_SEQUENCE_FIXED", ptr |-> ptr, data_size |-> PtrSize, fields |-> <<>>,
     elem |-> elem, count_offset |-> coff, count_size |-> 4, max |-> max]
Field(off, val) == [data_offset |-> off, value |-> val]

\* sequence.count_size of the schemas below: a uint32_t count, and a width
\* cyaml_data_read rejects (the decode error of a count read).
CountSizes == {4, 0}

\* A memory image from a set of <<address, value>> pairs.
MemOf(pairs) == [a \in {p[1] : p \in pairs} |-> (CHOOSE p \in pairs : p[1] = a)[2]]

\* -------------------------------------------------------- data instances
\* Each instance is what the loader builds for its schema: a root block and
\* one heap block per CYAML_FLAG_POINTER value, no block shared.  A count
\* is stored where cyaml__free_sequence reads it: count_offset bytes after
\* the sequence's own slot.

\* struct { Item **items; uint32_t count; }, Item = struct { char *name; }:
\* a pointer sequence of k pointer mappings, each with a pointer string.
ItemsSchemas(cs) ==
    <<Mapping(FALSE, Cell(2), <<Field(Cell(0), 2)>>),
      Sequence(TRUE, 3, Cell(1), cs),
      Mapping(TRUE, Cell(1), <<Field(Cell(0), 4)>>),
      Scalar(TRUE)>>
ItemsArr == Base(2)
ItemsItem(i) == Base(2 + i)
ItemsName(k, i) == Base(2 + k + i)
ItemsMem(k) ==
    MemOf({<<Base(1), IF k > 0 THEN ItemsArr ELSE NULL>>, <<Base(1) + Cell(1), k>>}
          \cup {<<ItemsArr + Cell(i - 1), ItemsItem(i)>> : i \in 1..k}
          \cup {<<ItemsItem(i), ItemsName(k, i)>> : i \in 1..k}
          \cup {<<ItemsName(k, i), 65>> : i \in 1..k})
ItemsBlocks(k) ==
    {Base(1)} \cup (IF k > 0 THEN {ItemsArr} ELSE {})
    \cup {ItemsItem(i) : i \in 1..k} \cup {ItemsName(k, i) : i \in 1..k}

\* struct { char *a; char **seq; uint32_t count; char *b; }: a pointer
\* sequence of k pointer strings between two optional pointer strings.
StringsSchemas(cs) ==
    <<Mapping(FALSE, Cell(4),
              <<Field(Cell(0), 2), Field(Cell(1), 3), Field(Cell(3), 5)>>),
      Scalar(TRUE),
      Sequence(TRUE, 4, Cell(1), cs),
      Scalar(TRUE),
      Scalar(TRUE)>>
StringsA == Base(2)
StringsB == Base(3)
StringsArr == Base(4)
StringsElem(i) == Base(4 + i)
StringsMem(k, aNull) ==
    MemOf({<<Base(1), IF aNull THEN NULL ELSE StringsA>>,
           <<Base(1) + Cell(1), IF k > 0 THEN StringsArr ELSE NULL>>,
           <<Base(1) + Cell(2), k>>,
           <<Base(1) + Cell(3), StringsB>>,
           <<StringsB, 66>>}
          \cup (IF aNull THEN {} ELSE {<<StringsA, 65>>})
          \cup {<<StringsArr + Cell(i - 1), StringsElem(i)>> : i \in 1..k}
          \cup {<<StringsElem(i), 67>> : i \in 1..k})
StringsBlocks(k, aNull) ==
    {Base(1), StringsB} \cup (IF aNull THEN {} ELSE {StringsA})
    \cup (IF k > 0 THEN {StringsArr} ELSE {})
    \cup {StringsElem(i) : i \in 1..k}

\* struct { char *fx[FixedMax]; uint32_t n; P *pm; int *fp; },
\* P = struct { int x; int arr[FixedMax]; }: an inline fixed sequence of
\* pointer strings, a run-time count cell n no schema uses as a count, a
\* pointer mapping of scalars only, and an optional pointer fixed sequence
\* of scalars.
FixedSchemas ==
    <<Mapping(FALSE, Cell(FixedMax + 3),
              <<Field(Cell(0), 2), Field(Cell(FixedMax + 1), 4),
                Field(Cell(FixedMax + 2), 7)>>),
      SequenceFixed(FALSE, 3, Cell(FixedMax), FixedMax),
      Scalar(TRUE),
      Mapping(TRUE, Cell(FixedMax + 1), <<Field(Cell(0), 5), Field(Cell(1), 6)>>),
      Scalar(FALSE),
      SequenceFixed(FALSE, 5, 0, FixedMax),
      SequenceFixed(TRUE, 5, 0, FixedMax)>>
FixedStr(i) == Base(1 + i)
FixedP == Base(2 + FixedMax)
FixedF == Base(3 + FixedMax)
FixedMem(n, fpNull) ==
    MemOf({<<Base(1) + Cell(i - 1), FixedStr(i)>> : i \in 1..FixedMax}
          \cup {<<FixedStr(i), 65>> : i \in 1..FixedMax}
          \cup {<<Base(1) + Cell(FixedMax), n>>,
                <<Base(1) + Cell(FixedMax + 1), FixedP>>,
                <<Base(1) + Cell(FixedMax + 2), IF fpNull THEN NULL ELSE FixedF>>}
          \cup {<<FixedP + Cell(j), 7>> : j \in 0..FixedMax}
          \cup (IF fpNull THEN {} ELSE {<<FixedF + Cell(j - 1), 9>> : j \in 1..FixedMax}))
FixedBlocks(fpNull) ==
    {Base(1), FixedP} \cup {FixedStr(i) : i \in 1..FixedMax}
    \cup (IF fpNull THEN {} ELSE {FixedF})

\* struct { M *m; char **seq; uint32_t count; },
\* M = struct { int x; char *s; }: a pointer mapping whose second field is
\* a pointer string, followed in the root by a pointer sequence of strings.
OverlapSchemas ==
    <<Mapping(FALSE, Cell(3), <<Field(Cell(0), 2), Field(Cell(1), 5)>>),
      Mapping(TRUE, Cell(2), <<Field(Cell(0), 3), Field(Cell(1), 4)>>),
      Scalar(FALSE),
      Scalar(TRUE),
      Sequence(TRUE, 6, Cell(1), 4),
      Scalar(TRUE)>>
OverlapM == Base(2)
OverlapS == Base(3)
OverlapArr == Base(4)
OverlapElem(i) == Base(4 + i)
OverlapMem(k) ==
    MemOf({<<Base(1), OverlapM>>, <<Base(1) + Cell(1), OverlapArr>>,
           <<Base(1) + Cell(2), k>>,
           <<OverlapM, 7>>, <<OverlapM + Cell(1), OverlapS>>, <<OverlapS, 65>>}
          \cup {<<OverlapArr + Cell(i - 1), OverlapElem(i)>> : i \in 1..k}
          \cup {<<OverlapElem(i), 67>> : i \in 1..k})
OverlapBlocks(k) ==
    {Base(1), OverlapM, OverlapS, OverlapArr} \cup {OverlapElem(i) : i \in 1..k}

\* The instances cyaml_free is called on.  `fault` says that the schema
\* gives its variable-length sequence a count_size cyaml_data_read rejects.
Instance(kind, k, cs, absent, schemas, mem, blocks) ==
    [kind |-> kind, k |-> k, fault |-> (cs = 0), absent |-> absent,
     schemas |-> schemas, mem |-> mem, blocks |-> blocks]
Instances ==
    {Instance("items", k, cs, FALSE, ItemsSchemas(cs), ItemsMem(k), ItemsBlocks(k)) :
        k \in 0..MaxCount, cs \in CountSizes}
    \cup {Instance("strings", kc[1], kc[2], kc[3], StringsSchemas(kc[2]),
                   StringsMem(kc[1], kc[3]), StringsBlocks(kc[1], kc[3])) :
        kc \in (0..MaxCount) \X CountSizes \X BOOLEAN}
    \cup {Instance("fixed", nf[1], 4, nf[2], FixedSchemas,
                   FixedMem(nf[1], nf[2]), FixedBlocks(nf[2])) :
        nf \in (0..MaxCount) \X BOOLEAN}
    \cup {Instance("overlap", k, 4, FALSE, OverlapSchemas, OverlapMem(k),
                   OverlapBlocks(k)) : k \in 1..MaxCount}

\* ----------------------------------------------------------------- state
VARIABLES
    config,     \* cyaml_free's first argument: NULL or a configuration
    schema,     \* cyaml_free's second argument: NULL or the root schema's index
    data,       \* cyaml_free's third argument: NULL or the root block
    inst,       \* the instance: its schema table, memory image and blocks
    released,   \* the addresses free() was given so far
    stack,      \* the activations of cyaml__free and of the two walkers
    nextAct,    \* the number the next activation gets
    trace,      \* the calls made so far, in order
    pc,         \* "start", "running" (inside cyaml_free) or "done"
    result      \* the cyaml_err_t cyaml_free returned

vars == <<config, schema, data, inst, released, stack, nextAct, trace, pc, result>>

Schema(id) == inst.schemas[id]
Top == stack[Len(stack)]
Pop == SubSeq(stack, 1, Len(stack) - 1)

Frame(fn, sch, addr, at, id) ==
    [fn |-> fn, sch |-> sch, data |-> addr, pc |-> at, i |-> 0, count |-> 0,
     stride |-> 0, id |-> id]

\* The cyaml__free activations on the stack s.
FreeActs(s) == {s[n].id : n \in {m \in 1..Len(s) : s[m].fn = "cyaml__free"}}

\* One entry of the trace: `op` is "call" (a function of free.c is entered),
\* "read" / "readerr" (cyaml_data_read returned CYAML_OK / an error), "log"
\* (cyaml__log), "free" (free) or "ret" (cyaml__free_sequence returned).
\* `by` is the activation that did it (0: cyaml_free), `path` the cyaml__free
\* activations then on the stack, `act` the activation a call creates, `val`
\* the value a read returned or the element count a "ret" returns with.
Ev(op, fn, sch, addr, val, by, act, path) ==
    [op |-> op, fn |-> fn, sch |-> sch, addr |-> addr, val |-> val, by |-> by,
     act |-> act, path |-> path]

\* ----------------------------------------------------- cyaml_data_read
\* The width reader of data.h: a width it supports, and the value it decodes.
DataReadOk(size) == size \in {1, 2, 4, 8}
Decode(size, v) ==
    IF size = 1 THEN v % 256 ELSE IF size = 2 THEN v % 65536 ELSE v

\* What a word read outside every block, or in a released block, may hold.
WildValues == {0, 1}
\* The values a read of the cell at addr can return: the stored value, or,
\* for a read of released or unallocated memory, also any other value.
Stored(addr) ==
    IF addr \in DOMAIN inst.mem
        THEN IF BlockOf(addr) \in released
                THEN {inst.mem[addr]} \cup WildValues
                ELSE {inst.mem[addr]}
        ELSE WildValues

Init ==
    /\ inst \in Instances
    /\ config \in {NULL, 1}
    /\ schema \in {NULL, 1}
    /\ data \in {NULL, Base(1)}
    /\ released = {}
    /\ stack = <<>>
    /\ nextAct = 1
    /\ trace = <<>>
    /\ pc = "start"
    /\ result = "none"

\* ---------------------------------------------------------- cyaml_free
\* The argument checks with the schema check first.
ArgStatusSchemaFirst(cfg, sch) ==
    IF sch = NULL THEN "CYAML_ERR_BAD_PARAM_NULL_SCHEMA"
    ELSE IF cfg = NULL THEN "CYAML_ERR_BAD_PARAM_NULL_CONFIG"
    ELSE "CYAML_OK"

\* Lines 146-151: the two argument checks; CYAML_OK when both pass.
ArgStatus(cfg, sch) ==
    IF cfg = NULL THEN "CYAML_ERR_BAD_PARAM_NULL_CONFIG"
    ELSE IF sch = NULL THEN "CYAML_ERR_BAD_PARAM_NULL_SCHEMA"
    ELSE "CYAML_OK"

\* Lines 146-152: the two argument checks, then the call on the root.
cyaml_free_call ==
    /\ pc = "start"
    /\ IF ArgStatus(config, schema) # "CYAML_OK"
          THEN /\ result' = ArgStatus(config, schema)
               /\ pc' = "done"
               /\ UNCHANGED <<stack, nextAct, trace>>
          ELSE /\ stack' = <<Frame("cyaml__free", schema, data, "enter", nextAct)>>
               /\ trace' = Append(trace,
                      Ev("call", "cyaml__free", schema, data, 0, 0, nextAct, {}))
               /\ nextAct' = nextAct + 1
               /\ pc' = "running"
               /\ UNCHANGED result
    /\ UNCHANGED <<config, schema, data, inst, released>>

\* Lines 153-154: cyaml__free has returned; free(data); return CYAML_OK.
cyaml_free_return ==
    /\ pc = "running"
    /\ stack = <<>>
    /\ trace' = Append(trace, Ev("free", "cyaml_free", schema, data, 0, 0, 0, {}))
    /\ released' = released \cup {data}
    /\ result' = "CYAML_OK"
    /\ pc' = "done"
    /\ UNCHANGED <<config, schema, data, inst, stack, nextAct>>

\* --------------------------------------------------------- cyaml__free
\* cyaml__free without its NULL check.
NullDataUnchecked(addr) == FALSE

\* Line 117: if (data == NULL).
NullData(addr) == addr = NULL

\* The release without the cyaml__log call.
FreeWithoutLog(f, alloacted_data, path) ==
    <<Ev("free", "cyaml__free", f.sch, alloacted_data, 0, f.id, 0, path)>>

\* Lines 134-136: cyaml__log(cfg, CYAML_LOG_DEBUG, "Freeing allocation: %p\n",
\* alloacted_data); free(alloacted_data).
LogAndFree(f, alloacted_data, path) ==
    <<Ev("log", "cyaml__free", f.sch, alloacted_data, 0, f.id, 0, path),
      Ev("free", "cyaml__free", f.sch, alloacted_data, 0, f.id, 0, path)>>

\* cyaml__free releasing its own allocation before it calls the walker.
cyaml__free_enter_release_first ==
    /\ pc = "running"
    /\ stack # <<>>
    /\ Top.fn = "cyaml__free"
    /\ Top.pc = "enter"
    /\ LET f == Top
           t == Schema(f.sch).type
           path == FreeActs(stack)
           walker == IF t = "CYAML_MAPPING" THEN "cyaml__free_mapping"
                                            ELSE "cyaml__free_sequence"
           own(v) == IF Schema(f.sch).ptr
                        THEN <<Ev("read", "cyaml__free", f.sch, f.data, v, f.id, 0, path)>>
                             \o LogAndFree(f, Decode(PtrSize, v), path)
                        ELSE <<>>
       IN IF NullData(f.data)
             THEN /\ stack' = Pop
                  /\ UNCHANGED <<trace, nextAct, released>>
             ELSE \E v \in Stored(f.data) :
                  /\ released' = IF Schema(f.sch).ptr
                                    THEN released \cup {Decode(PtrSize, v)}
                                    ELSE released
                  /\ IF t \in {"CYAML_MAPPING", "CYAML_SEQUENCE", "CYAML_SEQUENCE_FIXED"}
                        THEN /\ stack' = Append(Append(Pop, [f EXCEPT !.pc = "own"]),
                                     Frame(walker, f.sch, f.data, "enter", nextAct))
                             /\ trace' = trace \o own(v) \o
                                    <<Ev("call", walker, f.sch, f.data, 0, f.id,
                                         nextAct, path)>>
                             /\ nextAct' = nextAct + 1
                        ELSE /\ stack' = Append(Pop, [f EXCEPT !.pc = "own"])
                             /\ trace' = trace \o own(v)
                             /\ UNCHANGED nextAct
    /\ UNCHANGED <<config, schema, data, inst, pc, result>>

\* Lines 117-125: the NULL check and the call of the walker of the type.
cyaml__free_enter ==
    /\ pc = "running"
    /\ stack # <<>>
    /\ Top.fn = "cyaml__free"
    /\ Top.pc = "enter"
    /\ LET f == Top
           t == Schema(f.sch).type
           walker == IF t = "CYAML_MAPPING" THEN "cyaml__free_mapping"
                                            ELSE "cyaml__free_sequence"
       IN IF NullData(f.data)
             THEN /\ stack' = Pop
                  /\ UNCHANGED <<trace, nextAct>>
             ELSE IF t \in {"CYAML_MAPPING", "CYAML_SEQUENCE", "CYAML_SEQUENCE_FIXED"}
             THEN /\ stack' = Append(Append(Pop, [f EXCEPT !.pc = "own"]),
                                     Frame(walker, f.sch, f.data, "enter", nextAct))
                  /\ trace' = Append(trace,
                         Ev("call", walker, f.sch, f.data, 0, f.id, nextAct,
                            FreeActs(stack)))
                  /\ nextAct' = nextAct + 1
             ELSE /\ stack' = Append(Pop, [f EXCEPT !.pc = "own"])
                  /\ UNCHANGED <<trace, nextAct>>
    /\ UNCHANGED <<config, schema, data, inst, released, pc, result>>

\* Lines 127-137: the walker has returned; a CYAML_FLAG_POINTER value is
\* read from data, logged and freed.
cyaml__free_own ==
    /\ pc = "running"
    /\ stack # <<>>
    /\ Top.fn = "cyaml__free"
    /\ Top.pc = "own"
    /\ LET f == Top
           path == FreeActs(stack)
       IN IF ~Schema(f.sch).ptr
             THEN UNCHANGED <<trace, released>>
             ELSE IF ~DataReadOk(PtrSize)
             THEN /\ trace' = Append(trace,
                         Ev("readerr", "cyaml__free", f.sch, f.data, 0, f.id, 0, path))
                  /\ UNCHANGED released
             ELSE \E v \in Stored(f.data) :
                  LET alloacted_data == Decode(PtrSize, v)
                  IN /\ trace' = trace \o
                          <<Ev("read", "cyaml__free", f.sch, f.data, v, f.id, 0, path)>>
                          \o LogAndFree(f, alloacted_data, path)
                     /\ released' = released \cup {alloacted_data}
    /\ stack' = Pop
    /\ UNCHANGED <<config, schema, data, inst, nextAct, pc, result>>

\* ------------------------------------------------ cyaml__free_sequence
\* The count read with its error ignored.
CountReadErrorIgnored(count_size) == FALSE

\* Lines 64-69: err != CYAML_OK after the read of a count count_size wide.
CountReadFailed(count_size) == ~DataReadOk(count_size)

\* The loop running one element too far.
LoopContinuesInclusive(i, count) == i <= count

\* Line 85: the loop condition i < count.
LoopContinues(i, count) == i < count

\* Lines 58-83: the count (read, or sequence.max), the base of the element
\* storage (data, or the pointer read from it) and the stride.  The count
\* read failing, the pointer read failing or a NULL pointer return at once.
cyaml__free_sequence_enter ==
    /\ pc = "running"
    /\ stack # <<>>
    /\ Top.fn = "cyaml__free_sequence"
    /\ Top.pc = "enter"
    /\ LET f == Top
           sequence_schema == Schema(f.sch)
           elem == Schema(sequence_schema.elem)
           path == FreeActs(stack)
           counted == sequence_schema.type = "CYAML_SEQUENCE"
           count_at == f.data + sequence_schema.count_offset
           data_size == IF elem.ptr THEN PtrSize ELSE elem.data_size
           rd(addr, v) == Ev("read", f.fn, f.sch, addr, v, f.id, 0, path)
           ret(n) == Ev("ret", f.fn, f.sch, f.data, n, f.id, 0, path)
       IN IF counted /\ CountReadFailed(sequence_schema.count_size)
             THEN /\ trace' = trace \o
                        <<Ev("readerr", f.fn, f.sch, count_at, 0, f.id, 0, path),
                          ret(0)>>
                  /\ stack' = Pop
             ELSE \E c \in (IF counted THEN Stored(count_at) ELSE {sequence_schema.max}) :
                  LET count == IF counted THEN Decode(sequence_schema.count_size, c)
                                          ELSE c
                      reads == IF counted THEN <<rd(count_at, c)>> ELSE <<>>
                  IN IF sequence_schema.ptr
                        THEN \E p \in Stored(f.data) :
                             IF Decode(PtrSize, p) = NULL \/ ~DataReadOk(PtrSize)
                                THEN /\ trace' = trace \o reads \o <<rd(f.data, p), ret(count)>>
                                     /\ stack' = Pop
                                ELSE /\ trace' = trace \o reads \o <<rd(f.data, p)>>
                                     /\ stack' = Append(Pop,
                                            [f EXCEPT !.pc = "loop",
                                                      !.data = Decode(PtrSize, p),
                                                      !.count = count,
                                                      !.stride = data_size])
                        ELSE /\ trace' = trace \o reads
                             /\ stack' = Append(Pop,
                                    [f EXCEPT !.pc = "loop", !.count = count,
                                              !.stride = data_size])
    /\ UNCHANGED <<config, schema, data, inst, released, nextAct, pc, result>>

\* The elements freed by recursion instead of iteration: the activation of
\* element i stays open around those of the elements after it.
cyaml__free_sequence_loop_nested ==
    /\ pc = "running"
    /\ stack # <<>>
    /\ Top.fn = "cyaml__free_sequence"
    /\ Top.pc = "loop"
    /\ LET f == Top
           elem == Schema(f.sch).elem
           n == f.count - f.i
           path == FreeActs(stack)
           at(j) == f.data + f.stride * j
       IN IF LoopContinues(f.i, f.count)
             THEN /\ stack' = Append(Pop, [f EXCEPT !.i = f.count]) \o
                        [j \in 1..n |->
                            Frame("cyaml__free", elem, at(f.count - j), "enter",
                                  nextAct + (n - j))]
                  /\ trace' = trace \o
                        [j \in 1..n |->
                            Ev("call", "cyaml__free", elem, at(f.i + j - 1), 0, f.id,
                               nextAct + j - 1, path)]
                  /\ nextAct' = nextAct + n
             ELSE /\ stack' = Pop
                  /\ trace' = Append(trace,
                         Ev("ret", f.fn, f.sch, f.data, f.count, f.id, 0, path))
                  /\ UNCHANGED nextAct
    /\ UNCHANGED <<config, schema, data, inst, released, pc, result>>

\* Lines 85-87: one turn of the loop, cyaml__free(cfg, schema, data +
\* data_size * i), or the return when the loop is over.
cyaml__free_sequence_loop ==
    /\ pc = "running"
    /\ stack # <<>>
    /\ Top.fn = "cyaml__free_sequence"
    /\ Top.pc = "loop"
    /\ LET f == Top
           elem == Schema(f.sch).elem
           at == f.data + f.stride * f.i
           path == FreeActs(stack)
       IN IF LoopContinues(f.i, f.count)
             THEN /\ stack' = Append(Append(Pop, [f EXCEPT !.i = f.i + 1]),
                                     Frame("cyaml__free", elem, at, "enter", nextAct))
                  /\ trace' = Append(trace,
                         Ev("call", "cyaml__free", elem, at, 0, f.id, nextAct, path))
                  /\ nextAct' = nextAct + 1
             ELSE /\ stack' = Pop
                  /\ trace' = Append(trace,
                         Ev("ret", f.fn, f.sch, f.data, f.count, f.id, 0, path))
                  /\ UNCHANGED nextAct
    /\ UNCHANGED <<config, schema, data, inst, released, pc, result>>

\* ------------------------------------------------- cyaml__free_mapping
\* Line 104: schema->key != NULL, the field list not yet exhausted.
MoreFields(i, fields) == i < Len(fields)

\* Lines 102-108: one turn of the loop over the fields, cyaml__free(cfg,
\* &schema->value, data + schema->data_offset), or the return at the
\* key == NULL entry.  Frame field i counts the fields already visited.
cyaml__free_mapping_loop ==
    /\ pc = "running"
    /\ stack # <<>>
    /\ Top.fn = "cyaml__free_mapping"
    /\ LET f == Top
           fields == Schema(f.sch).fields
           path == FreeActs(stack)
       IN IF MoreFields(f.i, fields)
             THEN LET entry == fields[f.i + 1]
                      entry_data == f.data + entry.data_offset
                  IN /\ stack' = Append(Append(Pop, [f EXCEPT !.i = f.i + 1]),
                            Frame("cyaml__free", entry.value, entry_data, "enter",
                                  nextAct))
                     /\ trace' = Append(trace,
                            Ev("call", "cyaml__free", entry.value, entry_data, 0,
                               f.id, nextAct, path))
                     /\ nextAct' = nextAct + 1
             ELSE /\ stack' = Pop
                  /\ UNCHANGED <<trace, nextAct>>
    /\ UNCHANGED <<config, schema, data, inst, released, pc, result>>

Next ==
    \/ cyaml_free_call
    \/ cyaml_free_return
    \/ cyaml__free_enter
    \/ cyaml__free_own
    \/ cyaml__free_sequence_enter
    \/ cyaml__free_sequence_loop
    \/ cyaml__free_mapping_loop

Spec == Init /\ [][Next]_vars

\* cyaml_free is sequential code: whatever step is next is taken.
FairSpec == Spec /\ WF_vars(Next)

\* ------------------------------------------------------ reading a trace
Idx(op) == {n \in 1..Len(trace) : trace[n].op = op}
\* How often free() was given the address a.
FreeCount(a) == Cardinality({n \in Idx("free") : trace[n].addr = a})
\* The calls of cyaml__free activation `act` made.
Calls(act) ==
    Cardinality({n \in Idx("call") : trace[n].by = act /\ trace[n].fn = "cyaml__free"})
\* The call that created activation `act`.
CallOf(act) == trace[CHOOSE n \in Idx("call") : trace[n].act = act]
Done == pc = "done"
\* A call of cyaml_free that passed the argument checks on a data instance.
Freed == Done /\ result = "CYAML_OK" /\ data # NULL

\* The blocks block b holds a pointer to, and the blocks reachable from a
\* set of blocks through such pointers.
PointsTo(b) ==
    {inst.mem[a] : a \in {c \in DOMAIN inst.mem : BlockOf(c) = b}} \cap inst.blocks
RECURSIVE Reach(_, _)
Reach(bs, n) ==
    IF n = 0 THEN bs ELSE Reach(bs \cup UNION {PointsTo(b) : b \in bs}, n - 1)
\* The allocations owned by the elements of the sequence stored at `slot`.
ElementOwned(slot) ==
    LET arr == inst.mem[slot]
    IN IF arr = NULL THEN {} ELSE Reach({arr}, Cardinality(inst.blocks)) \ {arr}

\* The nesting depth of the schema with index id: 1 for a scalar.
RECURSIVE SchemaDepth(_)
SchemaDepth(id) ==
    LET s == Schema(id)
        below == IF s.type = "CYAML_MAPPING"
                    THEN {SchemaDepth(s.fields[j].value) : j \in 1..Len(s.fields)}
                 ELSE IF s.type = "CYAML_SCALAR" THEN {}
                 ELSE {SchemaDepth(s.elem)}
    IN 1 + (IF below = {} THEN 0 ELSE CHOOSE d \in below : \A e \in below : e <= d)

\* ----------------------------------------------------------------- C1
\* C1: after cyaml_free returns CYAML_OK on a well-formed instance with no
\* decode error, free() was given every block of the instance (the root and
\* each pointer-owned allocation) exactly once, and no other address
\* (free(NULL), which releases nothing, aside).
C1_ReleasedExactlyOnce ==
    (Freed /\ ~inst.fault) =>
        /\ \A b \in inst.blocks : FreeCount(b) = 1
        /\ \A n \in Idx("free") : trace[n].addr \in inst.blocks \cup {NULL}

C3_ArgumentStatus ==
    /\ Done =>
          /\ config = NULL => result = "CYAML_ERR_BAD_PARAM_NULL_CONFIG"
          /\ (config # NULL /\ schema = NULL) =>
                 result = "CYAML_ERR_BAD_PARAM_NULL_SCHEMA"
          /\ (config # NULL /\ schema # NULL) => result = "CYAML_OK"
          /\ result # "CYAML_OK" => (trace = <<>> /\ released = {} /\ stack = <<>>)
    /\ ~Done => result = "none"
\* cyaml_free has returned the NULL-schema status for a non-NULL data block.
C3_Witness ==
    /\ Done
    /\ config # NULL /\ schema = NULL /\ data # NULL
    /\ result = "CYAML_ERR_BAD_PARAM_NULL_SCHEMA"
\* cyaml_free has returned CYAML_OK although a count read failed.
C3_WitnessDecodeError ==
    Done /\ result = "CYAML_OK" /\ Idx("readerr") # {}

\* ----------------------------------------------------------------- C4
\* The returns of cyaml__free_sequence whose count read, if any, succeeded.
CountedReturns == {n \in Idx("ret") : \A e \in Idx("readerr") : trace[e].by # trace[n].by}
\* The sequence walker `act` read a NULL pointer as its element storage.
NullStorage(act) ==
    \E n \in Idx("read") :
        trace[n].by = act /\ trace[n].addr = CallOf(act).addr /\ trace[n].val = NULL
\* The count the schema and the data give the sequence that return n ends:
\* the stored count of a CYAML_SEQUENCE, sequence.max of a fixed one.
GivenCount(n) ==
    LET s == Schema(trace[n].sch)
    IN IF s.type = "CYAML_SEQUENCE"
          THEN inst.mem[CallOf(trace[n].by).addr + s.count_offset]
          ELSE s.max

\* C4 as stated: every cyaml__free_sequence activation calls cyaml__free on
\* its element schema exactly as often as the stored count (CYAML_SEQUENCE)
\* or sequence.max (CYAML_SEQUENCE_FIXED) says.
C4_CountFidelityAsStated ==
    \A n \in CountedReturns : Calls(trace[n].by) = GivenCount(n)

\* C4, amended: it does so unless the sequence is pointer-owned and its
\* stored pointer is NULL; then it makes no call at all.
C4_CountFidelity ==
    \A n \in CountedReturns :
        /\ trace[n].val = GivenCount(n)
        /\ Calls(trace[n].by) =
              IF Schema(trace[n].sch).ptr /\ NullStorage(trace[n].by)
                 THEN 0 ELSE GivenCount(n)
\* One call of cyaml_free in which an inline fixed sequence made sequence.max
\* element calls beside a run-time count cell holding another value, and an
\* absent pointer-owned fixed sequence made none.
C4_Witness ==
    /\ Freed /\ inst.kind = "fixed"
    /\ inst.mem[Base(1) + Cell(FixedMax)] # FixedMax
    /\ \E n \in CountedReturns :
          /\ Schema(trace[n].sch).type = "CYAML_SEQUENCE_FIXED"
          /\ ~Schema(trace[n].sch).ptr
          /\ Schema(Schema(trace[n].sch).elem).ptr
          /\ Calls(trace[n].by) = FixedMax
    /\ \E n \in CountedReturns :
          /\ Schema(trace[n].sch).type = "CYAML_SEQUENCE_FIXED"
          /\ NullStorage(trace[n].by)
          /\ Calls(trace[n].by) = 0
\* A CYAML_SEQUENCE with a stored count of at least 2 made that many calls.
C4_WitnessCounted ==
    \E n \in CountedReturns :
        /\ Schema(trace[n].sch).type = "CYAML_SEQUENCE"
        /\ GivenCount(n) >= 2
        /\ Calls(trace[n].by) = GivenCount(n)

\* ----------------------------------------------------------------- C5
\* The sequence walkers whose count read failed.
Faulty == {trace[e].by : e \in {n \in Idx("readerr") : trace[n].fn = "cyaml__free_sequence"}}
\* The allocations owned by the elements of those sequences.
FaultyOwned == UNION {ElementOwned(CallOf(a).addr) : a \in Faulty}

\* C5: a sequence whose count read fails makes no element call; the mapping
\* around it still dispatches every field, and at the end every allocation
\* is released once, as in the run without the fault, except those owned by
\* the faulty sequence's elements, which are not released.
C5_DecodeErrorContained ==
    /\ \A a \in Faulty : Calls(a) = 0
    /\ (Freed /\ (inst.fault \/ inst.kind = "strings")) =>
          /\ inst.fault <=> Faulty # {}
          /\ \A b \in inst.blocks :
                FreeCount(b) = IF b \in FaultyOwned THEN 0 ELSE 1
          /\ \E n \in Idx("call") :
                /\ trace[n].by = 1 /\ trace[n].fn = "cyaml__free_mapping"
                /\ Calls(trace[n].act) = Len(Schema(schema).fields)
\* The count read of the sequence between the strings a and b failed: a, b
\* and the array were released once, the MaxCount element strings were not.
C5_Witness ==
    /\ Freed /\ inst.kind = "strings" /\ inst.fault /\ ~inst.absent
    /\ inst.k = MaxCount
    /\ FaultyOwned = {StringsElem(i) : i \in 1..MaxCount}
    /\ FreeCount(StringsA) = 1 /\ FreeCount(StringsB) = 1
    /\ FreeCount(StringsArr) = 1
    /\ \A i \in 1..MaxCount : FreeCount(StringsElem(i)) = 0

\* ----------------------------------------------------------------- C6
\* cyaml__free is about to run its first line with data == NULL.
AtNullData ==
    /\ pc = "running" /\ stack # <<>>
    /\ Top.fn = "cyaml__free" /\ Top.pc = "enter" /\ Top.data = NULL

\* C6: cyaml__free called with data == NULL returns at once: its step reads
\* nothing, calls no walker, logs nothing and releases nothing.
C6_NullSafety ==
    [][AtNullData =>
          (stack' = Pop /\ trace' = trace /\ released' = released
             /\ nextAct' = nextAct)]_vars
\* cyaml_free has passed a NULL data pointer with a schema to cyaml__free.
C6_Witness == AtNullData /\ Schema(Top.sch).type = "CYAML_MAPPING"

\* ----------------------------------------------------------------- C7
\* C7: no cyaml_data_read made by the engine reads a block that an earlier
\* free() of the same call was given.
C7_NoReadAfterRelease ==
    \A n \in Idx("read") : \A m \in Idx("free") :
        (m < n /\ trace[m].addr # NULL) => BlockOf(trace[n].addr) # trace[m].addr

\* ----------------------------------------------------------------- C8
\* The calls of cyaml__free on a pointer-owned node, stored in a live block,
\* whose stored pointer is NULL.
AbsentCalls ==
    {n \in Idx("call") :
        /\ trace[n].fn = "cyaml__free" /\ Schema(trace[n].sch).ptr
        /\ trace[n].addr \in DOMAIN inst.mem
        /\ inst.mem[trace[n].addr] = NULL}

\* C8: for such a node cyaml__free dispatches no mapping field and no
\* sequence element, logs no release and calls free() for nothing.
C8_AbsentPointerSkipped ==
    \A c \in AbsentCalls :
        /\ \A n \in 1..Len(trace) :
              trace[n].by = trace[c].act => trace[n].op \notin {"log", "free"}
        /\ \A w \in Idx("call") :
              trace[w].by = trace[c].act => Calls(trace[w].act) = 0

\* ----------------------------------------------------------------- C9
\* Every free() at an index in `at` directly follows a log of its address.
LoggedBefore(at) ==
    \A n \in at :
        n > 1 /\ trace[n - 1].op = "log" /\ trace[n - 1].addr = trace[n].addr
\* Every log is directly followed by the free() of its address.
FreedAfter ==
    \A n \in Idx("log") :
        n < Len(trace) /\ trace[n + 1].op = "free"
            /\ trace[n + 1].addr = trace[n].addr

\* C9 as stated: in a call on a data block every free(), the one of the
\* root block by cyaml_free included, directly follows a debug log of the address it releases, and
\* every such log is directly followed by that free().
C9_EveryReleaseLoggedAsStated ==
    data # NULL => (LoggedBefore(Idx("free")) /\ FreedAfter)

\* C9, amended: this holds of every free() made by cyaml__free; the free()
\* of the root block by cyaml_free is made without any log.
C9_EveryReleaseLogged ==
    /\ LoggedBefore({n \in Idx("free") : trace[n].by # 0})
    /\ FreedAfter
    /\ \A n \in Idx("free") :
          trace[n].by = 0 => (n = 1 \/ trace[n - 1].op # "log")
    /\ Cardinality(Idx("log")) = Cardinality({n \in Idx("free") : trace[n].by # 0})
\* cyaml_free has returned after logged releases of nested allocations and
\* the release of the root block, which no log precedes.
C9_Witness ==
    /\ Freed
    /\ Cardinality(Idx("log")) >= 2
    /\ trace[Len(trace)].op = "free" /\ trace[Len(trace)].addr = data
    /\ trace[Len(trace) - 1].op # "log"

\* ---------------------------------------------------------------- C10
\* At most one cyaml__free activation per level of the schema is on the stack.
DepthBound ==
    schema # NULL => Cardinality(FreeActs(stack)) <= SchemaDepth(schema)

\* C10: cyaml_free terminates, and the nested cyaml__free activations never
\* outnumber the levels of the schema, whatever the stored counts.
C10_BoundedRecursion == []DepthBound /\ <>Done
\* The second or a later element of a sequence is being freed with as many
\* cyaml__free activations on the stack as the schema has levels.
C10_Witness ==
    /\ pc = "running" /\ Len(stack) >= 2
    /\ Top.fn = "cyaml__free"
    /\ Cardinality(FreeActs(stack)) = SchemaDepth(schema)
    /\ \E n \in 1..Len(stack) :
          stack[n].fn = "cyaml__free_sequence" /\ stack[n].i >= 2

====
